---- MODULE Spec2Model ----
(***************************************************************************)
(* Model of the food analysis pipeline (src/src/utils/foodRecognition.ts),  *)
(* of the Result screen that drives it and saves its result                *)
(* (src/src/screens/ResultScreen.tsx) and of the History screen that lists *)
(* the saved meals (src/src/screens/HistoryScreen.tsx).                    *)
(*                                                                         *)
(* Strings are TLA+ strings.  A score is an integer number of 1/10000      *)
(* (0.95 is 9500).  A nutrient value is an integer.  A JavaScript object   *)
(* with optional properties is a function whose DOMAIN holds exactly the   *)
(* properties that are present.                                            *)
(***************************************************************************)
EXTENDS Integers, Sequences, FiniteSets, TLC

VARIABLES
  pc,              \* position of the analyzeFoodImage call
  googleKey,       \* GOOGLE_API_KEY is set
  usdaKey,         \* USDA_API_KEY is set
  visionData,      \* <<>> or <<responses[0]>> of the vision response received
  sel,             \* <<>> or <<the locals set by lines 151-179>>
  lookupCalled,    \* fetchNutritionalData was called by this analysis
  usdaResponse,    \* <<>> or <<the response of the nutrition service to this call>>
  visionError,     \* <<>> or <<the error axios.post rejected with>>
  visionRequests,  \* requests sent to the vision service by this call
  usdaRequests,    \* requests sent to the nutrition service by this call
  outcome,         \* <<>> while running, else <<[kind |-> "returned" | "thrown", ...]>>
  fpc,             \* position of a direct call of fetchNutritionalData
  fetchArg,        \* its argument
  fetchResponse,   \* <<>> or <<the search response it received>>
  fetchOutcome,    \* <<>> or <<what it returned or threw>>
  user,            \* <<>> (null) or <<the user>> that useAuth() returns
  imageUri,        \* <<>> or <<route.params.imageUri>>
  foodData,        \* <<>> (null) or <<the analysis result shown>>
  loading,
  error,           \* <<>> (null) or <<the message>>
  isSaved,
  analyses,        \* for each image URI, the pending analyzeFoodImage calls of the rendered screen
  inserts,         \* the rows of the pending inserts of the rendered screen
  meals,           \* the rows of the meals table, in insertion order
  lastAlert,       \* <<>> or <<the last Alert.alert of handleSaveToHistory>>
  alerts,          \* number of alerts handleSaveToHistory has shown
  navigations,     \* number of navigation.navigate('History') calls
  presses,         \* number of handleSaveToHistory calls
  started,         \* number of analyses started
  mounted,         \* History screen: the effect of lines 158-160 has run
  historyMeals,    \* the meals state of the History screen (line 81)
  historyLoading,  \* its loading state (line 82)
  refreshing,      \* its refreshing state (line 83)
  mealFetches,     \* the queries of the pending fetchMeals calls of the mounted screen
  fetchStarts,     \* number of fetchMeals calls
  mealsLoaded,     \* number of setMeals calls
  tabs,            \* AppNavigator renders the main tabs (lines 205-236)
  detached         \* the rows of the pending inserts of screens since unmounted

analyzeVars == <<pc, googleKey, usdaKey, visionData, sel, lookupCalled, usdaResponse,
                 visionError, visionRequests, usdaRequests, outcome>>

fetchVars == <<fpc, fetchArg, fetchResponse, fetchOutcome>>

screenVars == <<user, imageUri, foodData, loading, error, isSaved, analyses, inserts,
                meals, lastAlert, alerts, navigations, presses, started>>

historyVars == <<mounted, historyMeals, historyLoading, refreshing, mealFetches,
                 fetchStarts, mealsLoaded>>

navigatorVars == <<tabs, detached>>

vars == <<analyzeVars, fetchVars, screenVars, historyVars, navigatorVars>>

----------------------------------------------------------------------------
(* Bounds of the inputs *)

MaxAnnotations == 2
MaxNutrients == 2
MaxNavigations == 2
MaxPresses == 2
MaxMeals == 3
MaxFetches == 3
MaxRoutes == 3

(* Texts the vision service may return for an annotation *)
Texts == {"Pizza", "Sushi", "fruit", "car", "Unknown Food", ""}
Scores == {8000, 9500}

(* Values and names of the nutrients a matched food record may list *)
Values == {0, 100, 120}
NutrientNames == {"Energy", "Protein", "Total lipid (fat)", "Fatty acids, total saturated",
                  "Sugars, total", "Sodium, Na", "Water",
                  "Energy from fat", "Dietary fiber and sugar"}

(* The image URIs the Result screen is opened with *)
ImageUris == {"file:///a.jpg", "file:///b.jpg"}

(* Names fetchNutritionalData is called with *)
FoodNames == {"Pizza"}

----------------------------------------------------------------------------
(* String helpers: String.prototype.toLowerCase and String.prototype.includes *)

UpperChars == "ABCDEFGHIJKLMNOPQRSTUVWXYZ"
LowerChars == "abcdefghijklmnopqrstuvwxyz"

(* the lower-case letter of each upper-case letter *)
LowerOf ==
  [c \in {SubSeq(UpperChars, i, i) : i \in 1..26} |->
     LET i == CHOOSE j \in 1..26 : SubSeq(UpperChars, j, j) = c
     IN  SubSeq(LowerChars, i, i)]

LowerChar(c) == IF c \in DOMAIN LowerOf THEN LowerOf[c] ELSE c

RECURSIVE toLowerCase(_)
toLowerCase(s) ==
  IF Len(s) = 0 THEN ""
  ELSE LowerChar(SubSeq(s, 1, 1)) \o toLowerCase(SubSeq(s, 2, Len(s)))

includes(s, k) ==
  \E i \in 0..(Len(s) - Len(k)) : SubSeq(s, i + 1, i + Len(k)) = k

----------------------------------------------------------------------------
(* The Food Relevance Filter *)

SENTINEL == "Unknown Food"
NO_DESCRIPTION == "No detailed description available."

foodKeywords == <<
  "sushi", "croissant", "fish", "tuna", "salmon", "cod", "shrimp", "lobster", "crab", "oyster", "clam",
  "orange", "pineapple", "apple", "banana", "grape", "watermelon", "kiwi", "mango", "papaya", "peach",
  "pear", "plum", "cherry", "strawberry", "blueberry", "raspberry", "blackberry", "coconut", "avocado",
  "broccoli", "carrot", "spinach", "kale", "lettuce", "cucumber", "zucchini", "eggplant", "pepper",
  "tomato", "potato", "onion", "garlic", "ginger", "mushroom", "pumpkin", "squash", "corn", "peas",
  "chicken", "beef", "pork", "lamb", "duck", "turkey", "bacon", "sausage", "hotdog", "steak", "ham",
  "pizza", "burger", "sandwich", "taco", "burrito", "quesadilla", "pasta", "spaghetti", "lasagna",
  "ravioli", "noodles", "soup", "stew", "chowder", "salad", "cake", "pie", "cookie", "brownie",
  "donut", "muffin", "pancake", "waffle", "croissant", "bagel", "toast", "cheese", "yogurt", "milk",
  "ice cream", "chocolate", "candy", "honey", "jam", "jelly", "syrup", "tea", "coffee", "juice",
  "smoothie", "soda", "beer", "wine", "whiskey", "cocktail",
  "hotdog", "sushi", "fish", "tuna", "orange", "pineapple",
  "paneer", "dal", "samosa", "pakora", "biryani", "naan", "roti", "paratha", "chapati", "idli",
  "dosa", "uttapam", "poha", "upma", "chole", "rajma", "kadhi", "sabzi", "aloo", "gobi", "bhindi",
  "baingan", "kheer", "gulab jamun", "jalebi", "laddu", "halwa", "pulao", "khichdi", "rasgulla",
  "malai kofta", "palak paneer", "matar paneer", "veg curry", "veg biryani", "veg pulao", "tikka",
  "chaat", "pani puri", "bhel puri", "sev puri", "dahi puri", "vada pav", "misal pav", "pav bhaji" >>

genericCategories == <<"food", "staple food", "dish", "meal", "fruit", "vegetable", "meat",
                        "bread", "drink", "beverage", "produce", "plant", "cuisine">>

(* a keyword test that also accepts the generic category words *)
isFoodRelatedOrGeneric(desc) ==
  LET d == toLowerCase(desc)
  IN  \/ \E i \in 1..Len(foodKeywords) : includes(d, foodKeywords[i])
      \/ \E i \in 1..Len(genericCategories) : genericCategories[i] = d

(* lines 121-142 *)
isFoodRelated(desc) ==
  LET d == toLowerCase(desc)
  IN  \E i \in 1..Len(foodKeywords) : includes(d, foodKeywords[i])

isGenericCategory(desc) ==
  LET d == toLowerCase(desc)
  IN  \E i \in 1..Len(genericCategories) : genericCategories[i] = d


(* lines 150-154: merge the label and the object annotations and sort them by
   score, descending; Array.prototype.sort is stable *)

labelsOf(data) ==
  IF "labelAnnotations" \in DOMAIN data THEN data.labelAnnotations ELSE <<>>

objectsOf(data) ==
  IF "localizedObjectAnnotations" \in DOMAIN data
  THEN data.localizedObjectAnnotations ELSE <<>>

mergeAnnotations(data) ==
  [i \in 1..Len(labelsOf(data)) |->
     [type |-> "label", description |-> labelsOf(data)[i].description,
      score |-> labelsOf(data)[i].score]]
  \o
  [i \in 1..Len(objectsOf(data)) |->
     [type |-> "object", description |-> objectsOf(data)[i].name,
      score |-> objectsOf(data)[i].score]]

(* an insertion that places x before the elements of equal score *)
insertByScoreUnstable(sorted, x) ==
  LET k == Cardinality({i \in 1..Len(sorted) : sorted[i].score > x.score})
  IN  SubSeq(sorted, 1, k) \o <<x>> \o SubSeq(sorted, k + 1, Len(sorted))

(* insert x behind every element that the comparator does not order after it *)
insertByScore(sorted, x) ==
  LET k == Cardinality({i \in 1..Len(sorted) : sorted[i].score >= x.score})
  IN  SubSeq(sorted, 1, k) \o <<x>> \o SubSeq(sorted, k + 1, Len(sorted))

RECURSIVE sortByScore(_)
sortByScore(s) ==
  IF s = <<>> THEN <<>>
  ELSE insertByScore(sortByScore(SubSeq(s, 1, Len(s) - 1)), s[Len(s)])

sortedAnnotations(data) == sortByScore(mergeAnnotations(data))

isFoodAnnotation(a) == isFoodRelated(a.description)
isSpecificAnnotation(a) == isFoodRelated(a.description) /\ ~isGenericCategory(a.description)

(* Array.prototype.find as a scan from the front: the index of the first
   element satisfying the callback, 0 when there is none (find returns
   undefined); line 157 *)
RECURSIVE findFoodRelated(_, _)
findFoodRelated(anns, i) ==
  IF i > Len(anns) THEN 0
  ELSE IF isFoodAnnotation(anns[i]) THEN i
  ELSE findFoodRelated(anns, i + 1)

(* line 161 *)
RECURSIVE findSpecific(_, _)
findSpecific(anns, i) ==
  IF i > Len(anns) THEN 0
  ELSE IF isSpecificAnnotation(anns[i]) THEN i
  ELSE findSpecific(anns, i + 1)

(* x || 'Unknown Food' on a string *)
orSentinel(x) == IF x = "" THEN SENTINEL ELSE x

(* a selection that takes the top-scoring annotation before looking for food *)
selectLabelTopFirst(anns) ==
  IF Len(anns) > 0
  THEN [branch |-> 3, index |-> 1, usdaQueryName |-> anns[1].description,
        name |-> orSentinel(anns[1].description)]
  ELSE [branch |-> 4, index |-> 0, usdaQueryName |-> SENTINEL, name |-> SENTINEL]

(* lines 156-175: branch is the branch of the if/else-if chain that ran
   (4: none), index the position of the annotation it used (0: none) *)
selectLabel(anns) ==
  LET bestAnnotationForDisplay == findFoodRelated(anns, 1)
      specificAnnotation == findSpecific(anns, 1)
  IN  IF specificAnnotation # 0
      THEN [branch |-> 1, index |-> specificAnnotation,
            usdaQueryName |-> anns[specificAnnotation].description,
            name |-> orSentinel(anns[specificAnnotation].description)]
      ELSE IF bestAnnotationForDisplay # 0
      THEN [branch |-> 2, index |-> bestAnnotationForDisplay,
            usdaQueryName |-> anns[bestAnnotationForDisplay].description,
            name |-> orSentinel(anns[bestAnnotationForDisplay].description)]
      ELSE IF Len(anns) > 0
      THEN [branch |-> 3, index |-> 1,
            usdaQueryName |-> anns[1].description,
            name |-> orSentinel(anns[1].description)]
      ELSE [branch |-> 4, index |-> 0, usdaQueryName |-> SENTINEL, name |-> SENTINEL]

(* (score * 100).toFixed(2) for a score given in 1/10000 *)
toFixed2(score) ==
  ToString(score \div 100) \o "." \o
  (IF score % 100 < 10 THEN "0" ELSE "") \o ToString(score % 100)

describeAnnotation(a) ==
  a.description \o " (" \o toFixed2(a.score) \o "%) [" \o a.type \o "]"

RECURSIVE joinDescriptions(_)
joinDescriptions(anns) ==
  IF Len(anns) = 0 THEN ""
  ELSE IF Len(anns) = 1 THEN describeAnnotation(anns[1])
  ELSE describeAnnotation(anns[1]) \o ", " \o joinDescriptions(Tail(anns))

(* a description that renders the selected annotation only *)
describeSelected(anns) ==
  IF selectLabel(anns).index = 0 THEN NO_DESCRIPTION
  ELSE describeAnnotation(anns[selectLabel(anns).index])

(* lines 177-179 *)
describeAll(anns) ==
  IF findFoodRelated(anns, 1) # 0 \/ Len(anns) > 0
  THEN joinDescriptions(anns)
  ELSE NO_DESCRIPTION

(* a guard that tests the query for truthiness instead of for the sentinel *)
shouldLookupNonEmpty(query) == query # ""

(* line 184 *)
shouldLookup(query) == query # SENTINEL

----------------------------------------------------------------------------
(* The Nutrition Lookup Adapter: fetchNutritionalData *)

(* a chain that tests the substrings in the opposite order *)
nutrientFieldReversed(nutrientName) ==
  LET name == toLowerCase(nutrientName)
  IN  IF includes(name, "sodium") THEN "sodium"
      ELSE IF includes(name, "sugar") THEN "sugar"
      ELSE IF includes(name, "fiber") THEN "fiber"
      ELSE IF includes(name, "total lipid") \/ includes(name, "fat") THEN "fat"
      ELSE IF includes(name, "carbohydrate") THEN "carbs"
      ELSE IF includes(name, "protein") THEN "protein"
      ELSE IF includes(name, "energy") THEN "calories"
      ELSE "none"

(* lines 249-263: the field the if/else-if chain assigns for a nutrient name,
   "none" when no condition of the chain holds *)
nutrientField(nutrientName) ==
  LET name == toLowerCase(nutrientName)
  IN  IF includes(name, "energy") THEN "calories"
      ELSE IF includes(name, "protein") THEN "protein"
      ELSE IF includes(name, "carbohydrate") THEN "carbs"
      ELSE IF includes(name, "total lipid") \/ includes(name, "fat") THEN "fat"
      ELSE IF includes(name, "fiber") THEN "fiber"
      ELSE IF includes(name, "sugar") THEN "sugar"
      ELSE IF includes(name, "sodium") THEN "sodium"
      ELSE "none"

(* obj.field = value: the property is created when it is absent *)
setField(obj, field, value) ==
  [f \in DOMAIN obj \cup {field} |-> IF f = field THEN value ELSE obj[f]]

(* a callback that adds the value to the field instead of assigning it *)
assignNutrientSum(nutritionalData, nutrient) ==
  LET field == nutrientField(nutrient.nutrientName)
  IN  IF field = "none" THEN nutritionalData
      ELSE setField(nutritionalData, field,
                    (IF field \in DOMAIN nutritionalData THEN nutritionalData[field] ELSE 0)
                    + nutrient.value)

(* the body of the forEach callback, lines 247-264 *)
assignNutrient(nutritionalData, nutrient) ==
  LET field == nutrientField(nutrient.nutrientName)
  IN  IF field = "none" THEN nutritionalData
      ELSE setField(nutritionalData, field, nutrient.value)

(* lines 240-245 *)
emptyNutritionalData == [calories |-> 0, protein |-> 0, carbs |-> 0, fat |-> 0]

(* foodNutrients.forEach, in list order *)
RECURSIVE extractFrom(_, _)
extractFrom(nutritionalData, foodNutrients) ==
  IF foodNutrients = <<>> THEN nutritionalData
  ELSE extractFrom(assignNutrient(nutritionalData, Head(foodNutrients)),
                   Tail(foodNutrients))

(* an extraction that starts with the optional fields present and 0 *)
extractNutrientsZeroed(foodNutrients) ==
  extractFrom([calories |-> 0, protein |-> 0, carbs |-> 0, fat |-> 0,
               fiber |-> 0, sugar |-> 0, sodium |-> 0], foodNutrients)

(* lines 240-266 *)
extractNutrients(foodNutrients) == extractFrom(emptyNutritionalData, foodNutrients)

(* lines 232-270, after the search response has arrived.  A response is
   [kind |-> "error"] when axios rejects (network error, non-2xx status) and
   [kind |-> "ok", foods |-> <<...>>] otherwise.  Every throw inside the try
   is replaced by the error of line 269. *)
fetchFailure(foodName) ==
  [ok |-> FALSE, message |-> "Failed to fetch nutritional data for " \o foodName]

(* the errors thrown inside the try block: line 222, line 233, and what
   axios.get rejects with at line 226 *)
USDA_KEY_MISSING == "USDA API key is not set. Please configure it in your .env and app.json."
noMatchingFood(foodName) == "No matching food found for " \o foodName
UsdaErrorMessages == {"Network Error", "Request failed with status code 500"}

(* lines 267-270: the catch logs the message of the caught error and throws
   a new error that does not carry it *)
fetchRethrow(foodName, message) == fetchFailure(foodName)

fetchResult(foodName, response) ==
  IF response.kind # "ok" THEN fetchRethrow(foodName, "Network Error")
  ELSE IF Len(response.foods) = 0 THEN fetchRethrow(foodName, noMatchingFood(foodName))
  ELSE [ok |-> TRUE, data |-> extractNutrients(response.foods[1].foodNutrients)]

----------------------------------------------------------------------------
(* The Food Analysis Orchestrator: analyzeFoodImage *)

KEY_MISSING == "Google Cloud Vision API key is not set. Please configure it in your .env and app.json."
ACCESS_DENIED == "Google Cloud Vision API access denied (403). Please check if your API key is valid and the API is enabled for your project."
FAILED_PREFIX == "Failed to analyze food image. Please try again. Error: "

(* a catch block that swallows the error and returns a fallback result *)
rethrowSwallowed(message, status) ==
  [kind |-> "returned", name |-> SENTINEL, description |-> NO_DESCRIPTION,
   isFoodItem |-> FALSE]

(* a catch block that reports every error that carries a response as an
   access-denied error *)
rethrowAnyStatus(message, status) ==
  [kind |-> "thrown",
   message |-> IF status # 0 THEN ACCESS_DENIED
               ELSE FAILED_PREFIX \o (IF message = "" THEN "Unknown error" ELSE message)]

(* lines 199-208: the error thrown to the caller for an error caught in the
   try block; status is 0 when the error carries no response *)
rethrow(message, status) ==
  [kind |-> "thrown",
   message |-> IF status = 403 THEN ACCESS_DENIED
               ELSE FAILED_PREFIX \o (IF message = "" THEN "Unknown error" ELSE message)]

(* a result that defaults nutritionalData instead of leaving it undefined *)
analysisResultDefaulted(s, isFoodItem, fetched) ==
  [kind |-> "returned", name |-> s.name, description |-> s.description,
   nutritionalData |-> IF Len(fetched) = 1 /\ fetched[1].ok THEN fetched[1].data
                       ELSE [calories |-> 0, protein |-> 0, carbs |-> 0, fat |-> 0],
   isFoodItem |-> isFoodItem]

(* a lookup whose failure is not caught at lines 188-190 *)
analysisResultPropagates(s, isFoodItem, fetched) ==
  IF Len(fetched) = 1 /\ ~fetched[1].ok
  THEN [kind |-> "thrown", message |-> fetched[1].message]
  ELSE IF Len(fetched) = 1
  THEN [kind |-> "returned", name |-> s.name, description |-> s.description,
        nutritionalData |-> fetched[1].data, isFoodItem |-> isFoodItem]
  ELSE [kind |-> "returned", name |-> s.name, description |-> s.description,
        isFoodItem |-> isFoodItem]

(* lines 193-198: nutritionalData is a property of the result only when
   the lookup returned a value *)
analysisResult(s, isFoodItem, fetched) ==
  IF Len(fetched) = 1 /\ fetched[1].ok
  THEN [kind |-> "returned", name |-> s.name, description |-> s.description,
        nutritionalData |-> fetched[1].data, isFoodItem |-> isFoodItem]
  ELSE [kind |-> "returned", name |-> s.name, description |-> s.description,
        isFoodItem |-> isFoodItem]

(* lines 151-179 on the parsed response *)
locals(data) ==
  LET anns == sortedAnnotations(data)
      s == selectLabel(anns)
  IN  [allAnnotations |-> anns, branch |-> s.branch, index |-> s.index,
       name |-> s.name, usdaQueryName |-> s.usdaQueryName,
       description |-> describeAll(anns)]

----------------------------------------------------------------------------
(* Inputs *)

SeqsUpTo(S, n) == UNION {[1..k -> S] : k \in 0..n}

LabelInputs == [description : Texts, score : Scores]
ObjectInputs == [name : Texts, score : Scores]

(* responses[0]: the service leaves out a list that has no entry *)
visionDataOf(labels, objects) ==
  [f \in (IF labels = <<>> THEN {} ELSE {"labelAnnotations"}) \cup
         (IF objects = <<>> THEN {} ELSE {"localizedObjectAnnotations"}) |->
     IF f = "labelAnnotations" THEN labels ELSE objects]

VisionData ==
  UNION {{visionDataOf(ls, os) : ls \in [1..k -> LabelInputs],
                                 os \in SeqsUpTo(ObjectInputs, MaxAnnotations - k)} :
         k \in 0..MaxAnnotations}

(* the annotations of Scenario A and of Scenario B *)
ScenarioA ==
  visionDataOf(<<[description |-> "hot dog", score |-> 9500],
                 [description |-> "fast food", score |-> 8000]>>, <<>>)

ScenarioB == visionDataOf(<<[description |-> "fruit", score |-> 9900]>>, <<>>)

(* the responses an analysis is answered with *)
VisionInputs == VisionData \cup {ScenarioA, ScenarioB}

(* what axios.post rejects with: an error message and the status of the
   response it carries, 0 when it carries none *)
VisionErrors ==
  {[message |-> "Network Error", status |-> 0],
   [message |-> "Request failed with status code 403", status |-> 403],
   [message |-> "Request failed with status code 500", status |-> 500]}

(* what readAsStringAsync rejects with *)
ReadErrors == {"", "File is not readable"}

Nutrients == [nutrientName : NutrientNames, value : Values]

(* the food records the nutrition service answers an analysis with *)
AnalysisFoods ==
  {<<>>,
   <<[nutrientName |-> "Energy", value |-> 120], [nutrientName |-> "Protein", value |-> 0],
     [nutrientName |-> "Sodium, Na", value |-> 100]>>}

UsdaResponsesOf(lists) ==
  {[kind |-> "error"], [kind |-> "ok", foods |-> <<>>]} \cup
  {[kind |-> "ok", foods |-> <<[foodNutrients |-> l]>>] : l \in lists}

----------------------------------------------------------------------------
(* One call of analyzeFoodImage, cut at its awaits *)

(* no direct call of fetchNutritionalData *)
FetchIdle ==
  /\ fpc = "idle"
  /\ fetchArg = ""
  /\ fetchResponse = <<>>
  /\ fetchOutcome = <<>>

(* the History screen as constructed, lines 81-83, before its effect runs *)
HistoryInit ==
  /\ mounted = FALSE
  /\ historyMeals = <<>>
  /\ historyLoading = TRUE
  /\ refreshing = FALSE
  /\ mealFetches = <<>>
  /\ fetchStarts = 0
  /\ mealsLoaded = 0

(* the main tabs are rendered and no screen has been unmounted *)
NavigatorInit ==
  /\ tabs = TRUE
  /\ detached = <<>>

(* the Result screen as constructed, lines 46-51, without a route parameter *)
ScreenInit ==
  /\ imageUri = <<>>
  /\ foodData = <<>>
  /\ loading = FALSE
  /\ error = <<>>
  /\ isSaved = FALSE
  /\ analyses = [u \in ImageUris |-> 0]
  /\ inserts = <<>>
  /\ meals = <<>>
  /\ lastAlert = <<>>
  /\ alerts = 0
  /\ navigations = 0
  /\ presses = 0
  /\ started = 0

InitAnalyze ==
  /\ pc = "start"
  /\ googleKey \in BOOLEAN
  /\ usdaKey \in BOOLEAN
  /\ visionData = <<>>
  /\ sel = <<>>
  /\ lookupCalled = FALSE
  /\ usdaResponse = <<>>
  /\ visionError = <<>>
  /\ visionRequests = 0
  /\ usdaRequests = 0
  /\ outcome = <<>>
  /\ FetchIdle
  /\ user = <<>>
  /\ ScreenInit
  /\ HistoryInit
  /\ NavigatorInit

(* a call that tests the key only after the image was read and the request
   was sent *)
InvokeNoKeyLate ==
  /\ pc = "start"
  /\ ~googleKey
  /\ pc' = "done"
  /\ visionRequests' = visionRequests + 1
  /\ outcome' = <<rethrow(KEY_MISSING, 0)>>
  /\ UNCHANGED <<googleKey, usdaKey, visionData, sel, lookupCalled, usdaResponse, visionError,
                 usdaRequests>>
  /\ UNCHANGED <<fetchVars, screenVars, historyVars, navigatorVars>>

(* lines 70-76: the key is missing, the catch of line 199 rethrows *)
InvokeNoKey ==
  /\ pc = "start"
  /\ ~googleKey
  /\ pc' = "done"
  /\ outcome' = <<rethrow(KEY_MISSING, 0)>>
  /\ UNCHANGED <<googleKey, usdaKey, visionData, sel, lookupCalled, usdaResponse, visionError,
                 visionRequests, usdaRequests>>
  /\ UNCHANGED <<fetchVars, screenVars, historyVars, navigatorVars>>

(* lines 70-81: the key is set, the image read is started *)
Invoke ==
  /\ pc = "start"
  /\ googleKey
  /\ pc' = "reading"
  /\ UNCHANGED <<googleKey, usdaKey, visionData, sel, lookupCalled, usdaResponse, visionError,
                 visionRequests, usdaRequests, outcome>>
  /\ UNCHANGED <<fetchVars, screenVars, historyVars, navigatorVars>>

(* line 79 rejects *)
ReadFail ==
  /\ pc = "reading"
  /\ \E m \in ReadErrors : outcome' = <<rethrow(m, 0)>>
  /\ pc' = "done"
  /\ UNCHANGED <<googleKey, usdaKey, visionData, sel, lookupCalled, usdaResponse, visionError,
                 visionRequests, usdaRequests>>
  /\ UNCHANGED <<fetchVars, screenVars, historyVars, navigatorVars>>

(* line 79 resolves, lines 84-110 send the request *)
ReadOk ==
  /\ pc = "reading"
  /\ pc' = "posting"
  /\ visionRequests' = visionRequests + 1
  /\ UNCHANGED <<googleKey, usdaKey, visionData, sel, lookupCalled, usdaResponse, visionError,
                 usdaRequests, outcome>>
  /\ UNCHANGED <<fetchVars, screenVars, historyVars, navigatorVars>>

(* a rejected request that is sent a second time before the call fails *)
VisionFailRetry ==
  /\ pc = "posting"
  /\ IF visionRequests < 2
     THEN /\ visionRequests' = visionRequests + 1
          /\ UNCHANGED <<pc, visionError, outcome>>
     ELSE /\ \E e \in VisionErrors :
               /\ visionError' = <<e>>
               /\ outcome' = <<rethrow(e.message, e.status)>>
          /\ pc' = "done"
          /\ UNCHANGED visionRequests
  /\ UNCHANGED <<googleKey, usdaKey, visionData, sel, lookupCalled, usdaResponse,
                 usdaRequests>>
  /\ UNCHANGED <<fetchVars, screenVars, historyVars, navigatorVars>>

(* line 84 rejects *)
VisionFail ==
  /\ pc = "posting"
  /\ \E e \in VisionErrors :
       /\ visionError' = <<e>>
       /\ outcome' = <<rethrow(e.message, e.status)>>
  /\ pc' = "done"
  /\ UNCHANGED <<googleKey, usdaKey, visionData, sel, lookupCalled, usdaResponse,
                 visionRequests, usdaRequests>>
  /\ UNCHANGED <<fetchVars, screenVars, historyVars, navigatorVars>>

(* the message of the TypeError for reading labelAnnotations of undefined:
   its wording is the engine's, Hermes and older V8 give the first, current
   V8 the second *)
MalformedMessages ==
  {"Cannot read property 'labelAnnotations' of undefined",
   "Cannot read properties of undefined (reading 'labelAnnotations')"}

(* line 84 resolves with an empty responses list: line 152 reads a property
   of undefined *)
VisionMalformed ==
  /\ pc = "posting"
  /\ \E message \in MalformedMessages : outcome' = <<rethrow(message, 0)>>
  /\ pc' = "done"
  /\ UNCHANGED <<googleKey, usdaKey, visionData, sel, lookupCalled, usdaResponse, visionError,
                 visionRequests, usdaRequests>>
  /\ UNCHANGED <<fetchVars, screenVars, historyVars, navigatorVars>>

(* line 84 resolves, lines 116-187 run up to the await of the lookup; the
   lookup runs its lines 217-228 in the same step *)
VisionOk ==
  /\ pc = "posting"
  /\ \E data \in VisionInputs :
       LET s == locals(data)
       IN  /\ visionData' = <<data>>
           /\ sel' = <<s>>
           /\ IF shouldLookup(s.usdaQueryName)
              THEN /\ lookupCalled' = TRUE
                   /\ IF usdaKey
                      THEN /\ usdaRequests' = usdaRequests + 1
                           /\ pc' = "searching"
                           /\ outcome' = outcome
                      ELSE /\ usdaRequests' = usdaRequests
                           /\ pc' = "done"
                           /\ outcome' = <<analysisResult(s, TRUE,
                                            <<fetchRethrow(s.usdaQueryName, USDA_KEY_MISSING)>>)>>
              ELSE /\ lookupCalled' = FALSE
                   /\ usdaRequests' = usdaRequests
                   /\ pc' = "done"
                   /\ outcome' = <<analysisResult(s, FALSE, <<>>)>>
  /\ UNCHANGED <<googleKey, usdaKey, usdaResponse, visionError, visionRequests>>
  /\ UNCHANGED <<fetchVars, screenVars, historyVars, navigatorVars>>

(* line 226 settles, lines 230-270 and 188-198 run *)
UsdaDone ==
  /\ pc = "searching"
  /\ \E r \in UsdaResponsesOf(AnalysisFoods) :
       LET fetched == fetchResult(sel[1].usdaQueryName, r)
       IN  /\ usdaResponse' = <<r>>
           /\ outcome' = <<analysisResult(sel[1], TRUE, <<fetched>>)>>
  /\ pc' = "done"
  /\ UNCHANGED <<googleKey, usdaKey, visionData, sel, lookupCalled, visionError,
                 visionRequests, usdaRequests>>
  /\ UNCHANGED <<fetchVars, screenVars, historyVars, navigatorVars>>

NextAnalyze ==
  \/ InvokeNoKey
  \/ Invoke
  \/ ReadFail
  \/ ReadOk
  \/ VisionFail
  \/ VisionMalformed
  \/ VisionOk
  \/ UsdaDone

Spec == InitAnalyze /\ [][NextAnalyze]_vars

----------------------------------------------------------------------------
(* One call of fetchNutritionalData, cut at its await *)

InitFetch ==
  /\ fpc = "start"
  /\ fetchArg \in FoodNames
  /\ usdaKey \in BOOLEAN
  /\ fetchResponse = <<>>
  /\ fetchOutcome = <<>>
  /\ usdaRequests = 0
  /\ pc = "idle"
  /\ googleKey = TRUE
  /\ visionData = <<>>
  /\ sel = <<>>
  /\ lookupCalled = FALSE
  /\ usdaResponse = <<>>
  /\ visionError = <<>>
  /\ visionRequests = 0
  /\ outcome = <<>>
  /\ user = <<>>
  /\ ScreenInit
  /\ HistoryInit
  /\ NavigatorInit

(* lines 217-223 and 267-270: the key is missing *)
FetchNoKey ==
  /\ fpc = "start"
  /\ ~usdaKey
  /\ fpc' = "done"
  /\ fetchOutcome' = <<fetchRethrow(fetchArg, USDA_KEY_MISSING)>>
  /\ UNCHANGED <<fetchArg, fetchResponse, analyzeVars, screenVars, historyVars, navigatorVars>>

(* lines 217-228: the key is set, the search request is sent *)
FetchSend ==
  /\ fpc = "start"
  /\ usdaKey
  /\ fpc' = "searching"
  /\ usdaRequests' = usdaRequests + 1
  /\ UNCHANGED <<fetchArg, fetchResponse, fetchOutcome>>
  /\ UNCHANGED <<pc, googleKey, usdaKey, visionData, sel, lookupCalled, usdaResponse, visionError,
                 visionRequests, outcome, screenVars, historyVars, navigatorVars>>

(* line 226 settles, lines 230-270 run *)
FetchSettle ==
  /\ fpc = "searching"
  /\ \E r \in UsdaResponsesOf(SeqsUpTo(Nutrients, MaxNutrients)) :
       /\ fetchResponse' = <<r>>
       /\ fetchOutcome' = <<fetchResult(fetchArg, r)>>
  /\ fpc' = "done"
  /\ UNCHANGED <<fetchArg, analyzeVars, screenVars, historyVars, navigatorVars>>

NextFetch ==
  \/ FetchNoKey
  \/ FetchSend
  \/ FetchSettle

SpecFetch == InitFetch /\ [][NextFetch]_vars

----------------------------------------------------------------------------
(* The Result screen: src/src/screens/ResultScreen.tsx *)

(* analyzeFoodImage from the parsed vision response to its return value:
   lines 116-198 with fetchNutritionalData, for a given search response *)
analyze(data, keySet, response) ==
  LET s == locals(data)
  IN  IF shouldLookup(s.usdaQueryName)
      THEN analysisResult(s, TRUE,
             <<IF keySet THEN fetchResult(s.usdaQueryName, response)
               ELSE fetchRethrow(s.usdaQueryName, USDA_KEY_MISSING)>>)
      ELSE analysisResult(s, FALSE, <<>>)

(* what the classifier sees on each image *)
labelOf(uri) == IF uri = "file:///a.jpg" THEN "Pizza" ELSE "Sushi"

ScreenVisionData(uri) ==
  {visionDataOf(<<>>, <<>>),
   visionDataOf(<<[description |-> labelOf(uri), score |-> 9500]>>, <<>>)}

(* the food records the nutrition service answers the screen's analyses with *)
ScreenFoods ==
  {<<[nutrientName |-> "Energy", value |-> 120], [nutrientName |-> "Protein", value |-> 0],
     [nutrientName |-> "Sodium, Na", value |-> 100]>>,
   <<[nutrientName |-> "Energy", value |-> 120], [nutrientName |-> "Protein", value |-> 100],
     [nutrientName |-> "Carbohydrate, by difference", value |-> 120],
     [nutrientName |-> "Total lipid (fat)", value |-> 100],
     [nutrientName |-> "Fiber, total dietary", value |-> 0],
     [nutrientName |-> "Sugars, total", value |-> 100],
     [nutrientName |-> "Sodium, Na", value |-> 120]>>}

(* setFoodData(result): the value analyzeFoodImage resolved with *)
toFoodData(result) == [f \in DOMAIN result \ {"kind"} |-> result[f]]

(* line 87 *)
FALLBACK == [name |-> "Unknown Food", description |-> "Analysis failed."]
ANALYSIS_ERROR == "Failed to analyze image. Please try again or enter details manually."

ALERT_INCOMPLETE == [title |-> "Info", message |-> "Data incomplete. Cannot save to history."]
ALERT_NOT_FOOD ==
  [title |-> "Error",
   message |-> "This does not appear to be a recognizable food item. Cannot save to history."]
ALERT_ALREADY == [title |-> "Info", message |-> "Meal already saved to history."]
ALERT_FAILED == [title |-> "Error", message |-> "Failed to save meal data"]
ALERT_SUCCESS == [title |-> "Success", message |-> "Meal saved to history!"]
ALERT_UNEXPECTED == [title |-> "Error", message |-> "Unexpected error occurred"]

(* truthiness of the optional properties read at lines 102, 208 and 223 *)
hasFoodItem(fd) == "isFoodItem" \in DOMAIN fd /\ fd.isFoodItem
hasNutrition(fd) == "nutritionalData" \in DOMAIN fd

(* line 97 negated *)
dataComplete(u, uri, fd) == u # <<>> /\ uri # <<>> /\ fd # <<>>

(* a guard that forgets the nutritionalData test *)
canSaveFoodOnly(fd) == hasFoodItem(fd)

(* line 102 negated *)
canSave(fd) == hasFoodItem(fd) /\ hasNutrition(fd)

(* foodData.nutritionalData?.field || 0 *)
orZero(fd, field) ==
  IF hasNutrition(fd) /\ field \in DOMAIN fd.nutritionalData
     /\ fd.nutritionalData[field] # 0
  THEN fd.nutritionalData[field]
  ELSE 0

(* a total whose fats is copied from carbs *)
nutrientTotalsSlip(fd) ==
  [calories |-> orZero(fd, "calories"), protein |-> orZero(fd, "protein"),
   carbs |-> orZero(fd, "carbs"), fats |-> orZero(fd, "carbs"),
   fiber |-> orZero(fd, "fiber"), sugar |-> orZero(fd, "sugar"),
   sodium |-> orZero(fd, "sodium")]

(* lines 127-135 *)
nutrientTotals(fd) ==
  [calories |-> orZero(fd, "calories"), protein |-> orZero(fd, "protein"),
   carbs |-> orZero(fd, "carbs"), fats |-> orZero(fd, "fat"),
   fiber |-> orZero(fd, "fiber"), sugar |-> orZero(fd, "sugar"),
   sodium |-> orZero(fd, "sodium")]

(* lines 114-136 *)
analysisDataOf(fd) ==
  [items |-> <<[name |-> fd.name,
                calories |-> orZero(fd, "calories"), protein |-> orZero(fd, "protein"),
                carbs |-> orZero(fd, "carbs"), fats |-> orZero(fd, "fat"),
                fiber |-> orZero(fd, "fiber"), sugar |-> orZero(fd, "sugar"),
                sodium |-> orZero(fd, "sodium")]>>,
   total |-> nutrientTotals(fd)]

(* lines 141-145 *)
mealRow(u, uri, fd) ==
  [user_id |-> u.id, image_url |-> uri, analysis_data |-> analysisDataOf(fd)]

(* lines 163, 206, 223 and 328-331: the Save button is rendered and enabled *)
SaveButtonEnabled ==
  /\ imageUri # <<>>
  /\ ~loading
  /\ foodData # <<>>
  /\ hasFoodItem(foodData[1])
  /\ hasNutrition(foodData[1])
  /\ ~isSaved

removeAt(seq, i) == SubSeq(seq, 1, i - 1) \o SubSeq(seq, i + 1, Len(seq))

AnalyzeIdle ==
  /\ pc = "idle"
  /\ visionData = <<>>
  /\ sel = <<>>
  /\ lookupCalled = FALSE
  /\ usdaResponse = <<>>
  /\ visionError = <<>>
  /\ visionRequests = 0
  /\ usdaRequests = 0
  /\ outcome = <<>>

InitScreen ==
  /\ user \in {<<>>, <<[id |-> "user-1"]>>}
  /\ googleKey \in BOOLEAN
  /\ usdaKey \in BOOLEAN
  /\ ScreenInit
  /\ AnalyzeIdle
  /\ FetchIdle
  /\ HistoryInit
  /\ NavigatorInit

----------------------------------------------------------------------------
(* The History screen: src/src/screens/HistoryScreen.tsx *)

HistoryUsers == {"user-1", "user-2"}

(* a result as the Result screen saves it *)
SavedFood ==
  [name |-> "Pizza", description |-> "Pizza (95.00%) [label]",
   nutritionalData |-> [calories |-> 120, protein |-> 0, carbs |-> 0, fat |-> 0],
   isFoodItem |-> TRUE]

(* the table meals as the store returns it for select('*'): the store gives
   each row an id and its creation time when the row is inserted; the table
   is kept in insertion order, so both are the position of the row *)
storedRecords(table) ==
  [i \in 1..Len(table) |->
     [id |-> i, created_at |-> i, user_id |-> table[i].user_id,
      image_url |-> table[i].image_url, analysis_data |-> table[i].analysis_data]]

(* a query that asks for the oldest record first *)
mealsQueryAscending(u) ==
  [column |-> "user_id", value |-> u.id, order |-> "created_at", ascending |-> TRUE]

(* lines 136-140: the query fetchMeals sends *)
mealsQuery(u) ==
  [column |-> "user_id", value |-> u.id, order |-> "created_at", ascending |-> FALSE]

(* .eq('user_id', value) *)
eqUserId(rows, value) == SelectSeq(rows, LAMBDA row : row.user_id = value)

(* .order('created_at', {ascending}): x is placed after the rows that come
   before it in the requested order *)
insertByCreatedAt(sorted, x, ascending) ==
  LET before == {i \in 1..Len(sorted) :
                   IF ascending THEN sorted[i].created_at <= x.created_at
                   ELSE sorted[i].created_at >= x.created_at}
      k == Cardinality(before)
  IN  SubSeq(sorted, 1, k) \o <<x>> \o SubSeq(sorted, k + 1, Len(sorted))

RECURSIVE orderByCreatedAt(_, _)
orderByCreatedAt(rows, ascending) ==
  IF rows = <<>> THEN <<>>
  ELSE insertByCreatedAt(orderByCreatedAt(SubSeq(rows, 1, Len(rows) - 1), ascending),
                         rows[Len(rows)], ascending)

(* the store's answer to a query on the table *)
selectMeals(table, query) ==
  orderByCreatedAt(eqUserId(storedRecords(table), query.value), query.ascending)

InitHistory ==
  /\ user \in {<<>>, <<[id |-> "user-1"]>>}
  /\ googleKey = TRUE
  /\ usdaKey = TRUE
  /\ ScreenInit
  /\ AnalyzeIdle
  /\ FetchIdle
  /\ HistoryInit
  /\ NavigatorInit

(* lines 127-140: fetchMeals, as closed over the user of one render, up to
   its await *)
fetchMealsOf(u) ==
  /\ fetchStarts < MaxFetches
  /\ fetchStarts' = fetchStarts + 1
  /\ IF u = <<>>
     THEN /\ historyLoading' = FALSE
          /\ UNCHANGED mealFetches
     ELSE /\ historyLoading' = TRUE
          /\ mealFetches' = Append(mealFetches, mealsQuery(u[1]))
  /\ UNCHANGED <<historyMeals, mealsLoaded>>

(* fetchMeals of the current render *)
fetchMeals ==
  /\ fetchMealsOf(user)
  /\ UNCHANGED <<analyzeVars, fetchVars, screenVars, navigatorVars>>

(* the History tab is opened for the first time since the tabs were
   rendered: the screen is mounted and the effect of lines 158-160 runs *)
MountHistory ==
  /\ tabs
  /\ ~mounted
  /\ mounted' = TRUE
  /\ refreshing' = refreshing
  /\ fetchMeals

(* useAuth() returns a new object for the same user while the screen is
   mounted: the effect of lines 158-160 runs again, its dependency being
   the user object (line 160) *)
UserRefreshed ==
  /\ mounted
  /\ user # <<>>
  /\ UNCHANGED <<mounted, refreshing>>
  /\ fetchMeals

(* navigation.navigate('History') on the rendered tabs: the History tab is
   mounted if it was not (the tabs are lazy), and then its effect runs *)
navigateToHistory ==
  IF mounted
  THEN UNCHANGED historyVars
  ELSE /\ mounted' = TRUE
       /\ refreshing' = refreshing
       /\ fetchMealsOf(user)

(* lines 165-168: onRefresh *)
onRefresh ==
  /\ mounted
  /\ mounted' = mounted
  /\ refreshing' = TRUE
  /\ fetchMeals

(* a client of the store inserts a row for one of the users, as lines
   138-146 of ResultScreen.tsx do *)
StoreInsert(uid) ==
  /\ Len(meals) < MaxMeals
  /\ meals' = Append(meals, mealRow([id |-> uid], "file:///a.jpg", SavedFood))
  /\ UNCHANGED <<user, imageUri, foodData, loading, error, isSaved, analyses, inserts,
                 lastAlert, alerts, navigations, presses, started>>
  /\ UNCHANGED <<analyzeVars, fetchVars, historyVars, navigatorVars>>

(* line 136 resolves without an error: lines 144-145 and 149-152 run.  The
   store answers the query on the table as it is when it answers; data is
   an array, so data || [] is data *)
MealsOk(i) ==
  /\ i \in 1..Len(mealFetches)
  /\ historyMeals' = selectMeals(meals, mealFetches[i])
  /\ mealsLoaded' = mealsLoaded + 1
  /\ historyLoading' = FALSE
  /\ refreshing' = FALSE
  /\ mealFetches' = removeAt(mealFetches, i)
  /\ UNCHANGED <<mounted, fetchStarts>>
  /\ UNCHANGED <<analyzeVars, fetchVars, screenVars, navigatorVars>>

(* line 136 resolves with an error or rejects: lines 142-143 or 147-148,
   then 149-152 run *)
MealsFail(i) ==
  /\ i \in 1..Len(mealFetches)
  /\ historyLoading' = FALSE
  /\ refreshing' = FALSE
  /\ mealFetches' = removeAt(mealFetches, i)
  /\ UNCHANGED <<mounted, historyMeals, fetchStarts, mealsLoaded>>
  /\ UNCHANGED <<analyzeVars, fetchVars, screenVars, navigatorVars>>

----------------------------------------------------------------------------
(* The actions of the Result screen *)

(* the route parameter changes and the effect of lines 57-94 runs up to the
   await of line 67 *)
fetchFoodData(uri) ==
  /\ tabs
  /\ imageUri # <<uri>>
  /\ imageUri' = <<uri>>
  /\ isSaved' = FALSE
  /\ loading' = TRUE
  /\ error' = <<>>
  /\ analyses' = [analyses EXCEPT ![uri] = @ + 1]
  /\ started' = started + 1
  /\ UNCHANGED <<user, foodData, inserts, meals, lastAlert, alerts, navigations, presses>>
  /\ UNCHANGED <<analyzeVars, fetchVars, historyVars, navigatorVars>>

(* a navigation to the Result screen with an image, on the screen that can
   also save *)
Navigate(uri) == started < MaxNavigations /\ fetchFoodData(uri)

(* the same navigation, on the screen observed without its Save button *)
Route(uri) == started < MaxRoutes /\ fetchFoodData(uri)

(* line 67 resolves, lines 68-82 and 88-90 run *)
AnalysisReturn(uri) ==
  /\ analyses[uri] > 0
  /\ googleKey
  /\ \E data \in ScreenVisionData(uri), r \in UsdaResponsesOf(ScreenFoods) :
       foodData' = <<toFoodData(analyze(data, usdaKey, r))>>
  /\ loading' = FALSE
  /\ analyses' = [analyses EXCEPT ![uri] = @ - 1]
  /\ UNCHANGED <<user, imageUri, error, isSaved, inserts, meals, lastAlert, alerts,
                 navigations, presses, started>>
  /\ UNCHANGED <<analyzeVars, fetchVars, historyVars, navigatorVars>>

(* a catch block that reports the error and keeps the result on screen *)
AnalysisThrowKeepsData(uri) ==
  /\ analyses[uri] > 0
  /\ error' = <<ANALYSIS_ERROR>>
  /\ loading' = FALSE
  /\ analyses' = [analyses EXCEPT ![uri] = @ - 1]
  /\ UNCHANGED <<user, imageUri, foodData, isSaved, inserts, meals, lastAlert, alerts,
                 navigations, presses, started>>
  /\ UNCHANGED <<analyzeVars, fetchVars, historyVars, navigatorVars>>

(* line 67 rejects, lines 83-90 run *)
AnalysisThrow(uri) ==
  /\ analyses[uri] > 0
  /\ error' = <<ANALYSIS_ERROR>>
  /\ foodData' = <<FALLBACK>>
  /\ loading' = FALSE
  /\ analyses' = [analyses EXCEPT ![uri] = @ - 1]
  /\ UNCHANGED <<user, imageUri, isSaved, inserts, meals, lastAlert, alerts,
                 navigations, presses, started>>
  /\ UNCHANGED <<analyzeVars, fetchVars, historyVars, navigatorVars>>

(* lines 96-146: handleSaveToHistory up to the await of line 138 *)
handleSaveToHistory ==
  /\ tabs
  /\ presses < MaxPresses
  /\ presses' = presses + 1
  /\ IF ~dataComplete(user, imageUri, foodData)
     THEN /\ lastAlert' = <<ALERT_INCOMPLETE>>
          /\ alerts' = alerts + 1
          /\ UNCHANGED <<inserts, navigations, historyVars>>
     ELSE IF ~canSave(foodData[1])
     THEN /\ lastAlert' = <<ALERT_NOT_FOOD>>
          /\ alerts' = alerts + 1
          /\ UNCHANGED <<inserts, navigations, historyVars>>
     ELSE IF isSaved
     THEN /\ lastAlert' = <<ALERT_ALREADY>>
          /\ alerts' = alerts + 1
          /\ navigations' = navigations + 1
          /\ navigateToHistory
          /\ UNCHANGED inserts
     ELSE /\ inserts' = Append(inserts, mealRow(user[1], imageUri[1], foodData[1]))
          /\ UNCHANGED <<lastAlert, alerts, navigations, historyVars>>
  /\ UNCHANGED <<user, imageUri, foodData, loading, error, isSaved, analyses, meals, started>>
  /\ UNCHANGED <<analyzeVars, fetchVars, navigatorVars>>

(* the Save button is pressed *)
PressSave == SaveButtonEnabled /\ handleSaveToHistory

(* the handler runs although the button is not offered *)
CallSave == ~SaveButtonEnabled /\ handleSaveToHistory

(* line 138 resolves without an error: the store has written the row;
   lines 151-155 run *)
InsertOk(i) ==
  /\ i \in 1..Len(inserts)
  /\ meals' = Append(meals, inserts[i])
  /\ inserts' = removeAt(inserts, i)
  /\ isSaved' = TRUE
  /\ lastAlert' = <<ALERT_SUCCESS>>
  /\ alerts' = alerts + 1
  /\ navigations' = navigations + 1
  /\ navigateToHistory
  /\ UNCHANGED <<user, imageUri, foodData, loading, error, analyses, presses, started>>
  /\ UNCHANGED <<analyzeVars, fetchVars, navigatorVars>>

(* line 138 resolves with an error: lines 148-150 run *)
InsertError(i) ==
  /\ i \in 1..Len(inserts)
  /\ inserts' = removeAt(inserts, i)
  /\ lastAlert' = <<ALERT_FAILED>>
  /\ alerts' = alerts + 1
  /\ UNCHANGED <<user, imageUri, foodData, loading, error, isSaved, analyses, meals,
                 navigations, presses, started>>
  /\ UNCHANGED <<analyzeVars, fetchVars, historyVars, navigatorVars>>

(* line 138 rejects: lines 157-160 run *)
InsertThrow(i) ==
  /\ i \in 1..Len(inserts)
  /\ inserts' = removeAt(inserts, i)
  /\ lastAlert' = <<ALERT_UNEXPECTED>>
  /\ alerts' = alerts + 1
  /\ UNCHANGED <<user, imageUri, foodData, loading, error, isSaved, analyses, meals,
                 navigations, presses, started>>
  /\ UNCHANGED <<analyzeVars, fetchVars, historyVars, navigatorVars>>

(* line 138 resolves without an error for a screen that has been unmounted:
   the store has written the row; setIsSaved of line 153 sets no state, the
   alert of line 154 is shown, and navigate of line 155 is called on the
   navigation of the unmounted tabs, which mounts nothing *)
DetachedInsertOk(i) ==
  /\ i \in 1..Len(detached)
  /\ meals' = Append(meals, detached[i])
  /\ detached' = removeAt(detached, i)
  /\ lastAlert' = <<ALERT_SUCCESS>>
  /\ alerts' = alerts + 1
  /\ navigations' = navigations + 1
  /\ UNCHANGED <<user, imageUri, foodData, loading, error, isSaved, analyses, inserts,
                 presses, started, tabs>>
  /\ UNCHANGED <<analyzeVars, fetchVars, historyVars>>

(* line 138 resolves with an error, or rejects, for a screen that has been
   unmounted: the alert of line 150 or of line 159 is shown *)
DetachedInsertFail(i) ==
  /\ i \in 1..Len(detached)
  /\ detached' = removeAt(detached, i)
  /\ lastAlert' \in {<<ALERT_FAILED>>, <<ALERT_UNEXPECTED>>}
  /\ alerts' = alerts + 1
  /\ UNCHANGED <<user, imageUri, foodData, loading, error, isSaved, analyses, inserts,
                 meals, navigations, presses, started, tabs>>
  /\ UNCHANGED <<analyzeVars, fetchVars, historyVars>>

----------------------------------------------------------------------------
(* The navigator: src/src/navigation/AppNavigator.tsx *)

(* lines 205-211 and 222-236: the auth context reports loading or no
   session, and the main tabs are not rendered any more.  The Result screen
   and the History screen are unmounted and their state is discarded: the
   analyses and the queries in flight settle without setting any state, and
   the inserts in flight are still answered by the store.  A session that
   ended takes the user away *)
TabsUnmounted ==
  /\ tabs
  /\ tabs' = FALSE
  /\ user' \in {user, <<>>}
  /\ detached' = detached \o inserts
  /\ imageUri' = <<>>
  /\ foodData' = <<>>
  /\ loading' = FALSE
  /\ error' = <<>>
  /\ isSaved' = FALSE
  /\ analyses' = [u \in ImageUris |-> 0]
  /\ inserts' = <<>>
  /\ mounted' = FALSE
  /\ historyMeals' = <<>>
  /\ historyLoading' = TRUE
  /\ refreshing' = FALSE
  /\ mealFetches' = <<>>
  /\ UNCHANGED <<meals, lastAlert, alerts, navigations, presses, started, fetchStarts,
                 mealsLoaded>>
  /\ UNCHANGED <<analyzeVars, fetchVars>>

(* lines 235-236: the auth context reports a session, after a sign-in on
   the Auth screen or after loading, and the main tabs are rendered with
   their screens as constructed *)
TabsMounted(u) ==
  /\ ~tabs
  /\ tabs' = TRUE
  /\ user' = u
  /\ UNCHANGED <<imageUri, foodData, loading, error, isSaved, analyses, inserts, meals,
                 lastAlert, alerts, navigations, presses, started, detached>>
  /\ UNCHANGED <<analyzeVars, fetchVars, historyVars>>

(* the users the Result screen is rendered with *)
ScreenUsers == {<<>>, <<[id |-> "user-1"]>>}

(* the users the History screen is rendered with *)
HistoryScreenUsers == {<<>>} \cup {<<[id |-> uid]>> : uid \in HistoryUsers}

----------------------------------------------------------------------------
(* The specifications of the screens *)

NextScreenUI ==
  \/ \E uri \in ImageUris : Navigate(uri)
  \/ \E uri \in ImageUris : AnalysisReturn(uri)
  \/ \E uri \in ImageUris : AnalysisThrow(uri)
  \/ PressSave
  \/ \E i \in 1..MaxPresses : InsertOk(i)
  \/ \E i \in 1..MaxPresses : InsertError(i)
  \/ \E i \in 1..MaxPresses : InsertThrow(i)
  \/ \E i \in 1..MaxPresses : DetachedInsertOk(i)
  \/ \E i \in 1..MaxPresses : DetachedInsertFail(i)
  \/ \E i \in 1..MaxFetches : MealsOk(i)
  \/ \E i \in 1..MaxFetches : MealsFail(i)
  \/ TabsUnmounted
  \/ \E u \in ScreenUsers : TabsMounted(u)

NextScreen ==
  \/ NextScreenUI
  \/ CallSave

NextRoutes ==
  \/ \E uri \in ImageUris : Route(uri)
  \/ \E uri \in ImageUris : AnalysisReturn(uri)
  \/ \E uri \in ImageUris : AnalysisThrow(uri)

(* the screen under route changes only: the analyses it starts and settles *)
SpecRoutes == InitScreen /\ [][NextRoutes]_vars

(* the same, with every network call of an analysis eventually returning or
   failing: the promise of line 67 settles *)
SpecRoutesFair ==
  /\ SpecRoutes
  /\ \A uri \in ImageUris : WF_vars(AnalysisReturn(uri) \/ AnalysisThrow(uri))

(* the Result screen driven through its button only, with the History tab
   it navigates to and the navigator that renders both *)
SpecScreenUI == InitScreen /\ [][NextScreenUI]_vars

(* the same with handleSaveToHistory callable in every state of the screen *)
SpecScreen == InitScreen /\ [][NextScreen]_vars

NextHistory ==
  \/ MountHistory
  \/ UserRefreshed
  \/ onRefresh
  \/ \E uid \in HistoryUsers : StoreInsert(uid)
  \/ \E i \in 1..MaxFetches : MealsOk(i)
  \/ \E i \in 1..MaxFetches : MealsFail(i)
  \/ TabsUnmounted
  \/ \E u \in HistoryScreenUsers : TabsMounted(u)

(* the History screen, the rows other clients write to the store, and the
   navigator that renders the screen *)
SpecHistory == InitHistory /\ [][NextHistory]_vars

----------------------------------------------------------------------------
(* Properties of analyzeFoodImage *)

Returned == pc = "done" /\ outcome[1].kind = "returned"
Thrown == pc = "done" /\ outcome[1].kind = "thrown"

(* the nutrition service answered the lookup of this call with a match *)
LookupSucceeded ==
  /\ lookupCalled
  /\ Len(usdaResponse) = 1
  /\ usdaResponse[1].kind = "ok"
  /\ Len(usdaResponse[1].foods) > 0

(* C1: in every returned result isFoodItem is true iff fetchNutritionalData
   was called, and it was called iff the selected query is not the sentinel,
   whether the lookup then succeeded or not *)
C1_IsFoodItemIffLookup ==
  Returned =>
    /\ outcome[1].isFoodItem <=> lookupCalled
    /\ lookupCalled <=> (sel[1].usdaQueryName # SENTINEL)

C1_Witness ==
  /\ Returned
  /\ outcome[1].isFoodItem
  /\ lookupCalled
  /\ ~LookupSucceeded
  /\ Len(usdaResponse) = 1

(* C2: in every returned result nutritionalData is present iff the lookup
   was attempted and the service answered it with a match; it is absent
   when the lookup was skipped, the key missing, the request failed or
   nothing matched *)
C2_NutritionIffSucceeded ==
  Returned => (("nutritionalData" \in DOMAIN outcome[1]) <=> LookupSucceeded)

C2_Witness ==
  /\ Returned
  /\ LookupSucceeded
  /\ "nutritionalData" \in DOMAIN outcome[1]

isSpecificAt(a, j) ==
  isFoodRelated(a[j].description) /\ ~isGenericCategory(a[j].description)

isFoodAt(a, j) == isFoodRelated(a[j].description)

(* C3: for a non-empty sorted sequence the selection takes the first
   specific food annotation; else the first food-related one; else the
   top-scoring one; and it is left at the sentinel default for no
   non-empty sequence *)
C3_SelectionPriority ==
  (Len(sel) = 1 /\ Len(sel[1].allAnnotations) > 0) =>
    LET a == sel[1].allAnnotations
        i == sel[1].index
        n == Len(a)
    IN  /\ sel[1].branch \in {1, 2, 3}
        /\ i \in 1..n
        /\ sel[1].usdaQueryName = a[i].description
        /\ (\E j \in 1..n : isSpecificAt(a, j)) =>
             /\ sel[1].branch = 1
             /\ isSpecificAt(a, i)
             /\ \A j \in 1..(i - 1) : ~isSpecificAt(a, j)
        /\ ((\A j \in 1..n : ~isSpecificAt(a, j)) /\ (\E j \in 1..n : isFoodAt(a, j))) =>
             /\ sel[1].branch = 2
             /\ isFoodAt(a, i)
             /\ \A j \in 1..(i - 1) : ~isFoodAt(a, j)
        /\ (\A j \in 1..n : ~isFoodAt(a, j)) =>
             /\ sel[1].branch = 3
             /\ i = 1

C3_Witness ==
  /\ Len(sel) = 1
  /\ sel[1].branch = 1
  /\ sel[1].index = 2
  /\ sel[1].allAnnotations[1].score > sel[1].allAnnotations[2].score

(* C4: the lookup is skipped, with name 'Unknown Food' and isFoodItem false,
   exactly when there is no annotation; with at least one annotation a
   lookup is attempted with the selected text and isFoodItem is true *)
C4_SkippedIffNoAnnotation ==
  Returned =>
    LET a == sel[1].allAnnotations
    IN  /\ (~lookupCalled /\ outcome[1].name = SENTINEL /\ ~outcome[1].isFoodItem)
             <=> (Len(a) = 0)
        /\ Len(a) > 0 =>
             /\ lookupCalled
             /\ sel[1].usdaQueryName = a[sel[1].index].description
             /\ outcome[1].isFoodItem

(* the classifier step ended without a parsed response *)
ClassifierFailed == pc = "done" /\ visionData = <<>>

(* C5: when the classifier step fails the call throws, produces no result
   record, and has neither called the lookup nor sent a nutrition request *)
C5_ClassifierFailureIsTerminal ==
  ClassifierFailed =>
    /\ outcome[1].kind = "thrown"
    /\ DOMAIN outcome[1] = {"kind", "message"}
    /\ ~lookupCalled
    /\ usdaRequests = 0

C5_Witness ==
  /\ ClassifierFailed
  /\ visionRequests = 1
  /\ outcome[1].kind = "thrown"

(* C6: when the classifier step succeeded the call returns a result; a
   lookup that failed leaves nutritionalData absent and isFoodItem true *)
C6_LookupFailureAbsorbed ==
  (pc = "done" /\ visionData # <<>>) =>
    /\ outcome[1].kind = "returned"
    /\ (lookupCalled /\ ~LookupSucceeded) =>
         /\ "nutritionalData" \notin DOMAIN outcome[1]
         /\ outcome[1].isFoodItem

C6_Witness ==
  /\ Returned
  /\ lookupCalled
  /\ Len(usdaResponse) = 1
  /\ usdaResponse[1].kind = "ok"
  /\ Len(usdaResponse[1].foods) = 0
  /\ outcome[1].isFoodItem

(* an annotation was selected by one of the rules 1 to 3 *)
AnnotationSelected == sel # <<>> /\ sel[1].branch \in 1..3

(* C12: in every result for which an annotation was selected, the display
   name and the lookup query are the same string, the text of the selected
   annotation *)
C12_NameIsQuery ==
  (Returned /\ AnnotationSelected) =>
    /\ outcome[1].name = sel[1].usdaQueryName
    /\ outcome[1].name = sel[1].allAnnotations[sel[1].index].description

(* the error analyzeFoodImage throws for a missing classifier key *)
CONFIGURATION_ERROR == [kind |-> "thrown", message |-> FAILED_PREFIX \o KEY_MISSING]

(* the errors analyzeFoodImage throws for a rejected request *)
RemoteServiceErrors == {rethrow(e.message, e.status) : e \in VisionErrors}

(* C14: a call without the classifier key fails with the configuration
   error, which no rejected request produces and which no call with the key
   produces; the call never reaches the image read and sends no request *)
C14_MissingKeyFailsFirst ==
  /\ ~googleKey => pc \in {"start", "done"}
  /\ (~googleKey /\ pc = "done") =>
       /\ outcome = <<CONFIGURATION_ERROR>>
       /\ outcome[1] \notin RemoteServiceErrors
       /\ visionRequests = 0
       /\ usdaRequests = 0
  /\ (googleKey /\ pc = "done") => outcome[1] # CONFIGURATION_ERROR

(* the call without the key has failed *)
C14_Witness ==
  /\ ~googleKey
  /\ pc = "done"
  /\ outcome = <<CONFIGURATION_ERROR>>
  /\ visionRequests = 0

(* the lookup was invoked without the nutrition key and the call is over *)
LookupWithoutKey == pc = "done" /\ lookupCalled /\ ~usdaKey

(* what the same analysis returns when the key is set and the search
   finds nothing or the request fails *)
OtherLookupFailures ==
  {analysisResult(sel[1], TRUE, <<fetchResult(sel[1].usdaQueryName, r)>>) :
     r \in {[kind |-> "error"], [kind |-> "ok", foods |-> <<>>]}}

(* C15: a lookup invoked without the nutrition key sends no request to the
   nutrition service, and the caller of the analysis receives an outcome
   that shows the missing key: not the outcome of a lookup that found
   nothing or whose request failed *)
C15_MissingUsdaKeySurfaced ==
  LookupWithoutKey =>
    /\ usdaRequests = 0
    /\ outcome[1] \notin OtherLookupFailures

(* the vision service answered this call with status 403 *)
Answered403 == visionError # <<>> /\ visionError[1].status = 403

(* the error analyzeFoodImage throws for an authorization failure *)
AUTHORIZATION_ERROR == [kind |-> "thrown", message |-> ACCESS_DENIED]

(* C16: a call that the vision service answers with status 403 fails with
   the authorization error, and every call that ends otherwise (another
   status, a network error, a missing key, an image that cannot be read, a
   malformed response, a returned result) ends with another outcome *)
C16_AccessDeniedIff403 ==
  pc = "done" => (outcome[1] = AUTHORIZATION_ERROR <=> Answered403)

(* the call has failed on a 403 answer *)
C16_Witness ==
  /\ pc = "done"
  /\ Answered403
  /\ outcome = <<AUTHORIZATION_ERROR>>
  /\ visionRequests = 1

(* C18: for the annotations of Scenario A, 'hot dog' is food-related and
   not generic and is selected by rule 1; query and name are 'hot dog' *)
C18_ScenarioA ==
  (sel # <<>> /\ visionData = <<ScenarioA>>) =>
    /\ isSpecificAnnotation(sel[1].allAnnotations[1])
    /\ sel[1].branch = 1
    /\ sel[1].usdaQueryName = "hot dog"
    /\ sel[1].name = "hot dog"

(* C19: for the annotation of Scenario B, 'fruit' is food-related and a
   generic category and is selected by rule 2; query and name are 'fruit' *)
C19_ScenarioB ==
  (sel # <<>> /\ visionData = <<ScenarioB>>) =>
    /\ isFoodRelated("fruit")
    /\ isGenericCategory("fruit")
    /\ sel[1].branch = 2
    /\ sel[1].usdaQueryName = "fruit"
    /\ sel[1].name = "fruit"

(* C20: one call of analyzeFoodImage sends at most one request to the
   vision service and at most one to the nutrition service, also when a
   request fails; the nutrition request is sent only after the vision
   response was received and a query was selected from it *)
C20_OneRequestEachInOrder ==
  /\ visionRequests <= 1
  /\ usdaRequests <= 1
  /\ usdaRequests = 1 =>
       /\ visionRequests = 1
       /\ visionData # <<>>
       /\ sel # <<>>
       /\ sel[1] = locals(visionData[1])
       /\ lookupCalled
  /\ (pc = "done" /\ visionError # <<>>) => (visionRequests = 1 /\ usdaRequests = 0)
  /\ pc \in {"start", "reading"} => (visionRequests = 0 /\ usdaRequests = 0)
  /\ pc = "posting" => (visionRequests = 1 /\ usdaRequests = 0)

(* the call is over: the vision request succeeded, the nutrition request
   failed, and each was sent once *)
C20_Witness ==
  /\ pc = "done"
  /\ visionRequests = 1
  /\ usdaRequests = 1
  /\ usdaResponse = <<[kind |-> "error"]>>
  /\ Returned

(* the label annotations followed by the object annotations of the
   response, each with its kind, in the order of the response *)
responseAnnotations(data) ==
  [i \in 1..(Len(labelsOf(data)) + Len(objectsOf(data))) |->
     IF i <= Len(labelsOf(data))
     THEN [type |-> "label", description |-> labelsOf(data)[i].description,
           score |-> labelsOf(data)[i].score]
     ELSE [type |-> "object",
           description |-> objectsOf(data)[i - Len(labelsOf(data))].name,
           score |-> objectsOf(data)[i - Len(labelsOf(data))].score]]

(* C24: the sequence used for selection and description is a permutation of
   the label and object annotations of the response in non-increasing order
   of score, in which annotations of equal score keep labels before objects
   and otherwise the order of the response *)
C24_SortedStablePermutation ==
  sel # <<>> =>
    LET anns == sel[1].allAnnotations
        resp == responseAnnotations(visionData[1])
        n == Len(resp)
    IN  /\ Len(anns) = n
        /\ \A i \in 1..n : \A j \in 1..n : i < j => anns[i].score >= anns[j].score
        /\ \E f \in Permutations(1..n) :
             /\ \A i \in 1..n : anns[f[i]] = resp[i]
             /\ \A i \in 1..n : \A j \in 1..n :
                  (i < j /\ resp[i].score = resp[j].score) => f[i] < f[j]

(* the object was returned after the label and with the higher score: it
   comes first *)
C24_Witness ==
  /\ sel # <<>>
  /\ visionData = <<visionDataOf(<<[description |-> "Pizza", score |-> 8000]>>,
                                 <<[name |-> "Sushi", score |-> 9500]>>)>>
  /\ sel[1].allAnnotations =
       <<[type |-> "object", description |-> "Sushi", score |-> 9500],
         [type |-> "label", description |-> "Pizza", score |-> 8000]>>

(* no word of the genericCategories list contains a food keyword *)
GenericWordsNotFood ==
  \A i \in 1..Len(genericCategories) : ~isFoodRelated(genericCategories[i])

(* C25: no text is both food-related and a generic category: every word of
   genericCategories fails isFoodRelated (a fact of the two lists, evaluated
   once, on the initial states), so in every selection the specific-food
   rule finds an annotation whenever the first-food-related rule finds one,
   and the generic-food branch never selects the name *)
C25_GenericBranchNeverSelects ==
  /\ pc = "start" => GenericWordsNotFood
  /\ sel # <<>> =>
       LET anns == sel[1].allAnnotations
       IN  /\ \A i \in 1..Len(anns) :
                ~(isFoodRelated(anns[i].description) /\ isGenericCategory(anns[i].description))
           /\ findFoodRelated(anns, 1) # 0 => findSpecific(anns, 1) # 0
           /\ findFoodRelated(anns, 1) = findSpecific(anns, 1)
           /\ sel[1].branch # 2

(* 'fruit' has the higher score and 'Pizza' is selected by rule 1 *)
C25_Witness ==
  /\ sel # <<>>
  /\ Len(sel[1].allAnnotations) = 2
  /\ sel[1].allAnnotations[1].description = "fruit"
  /\ sel[1].allAnnotations[2].description = "Pizza"
  /\ sel[1].branch = 1
  /\ sel[1].index = 2

(* the entry of one annotation: its text, its score as a percentage with
   two decimals, and its kind *)
entryOf(a) ==
  a.description \o " (" \o ToString(a.score \div 100) \o "." \o
  ToString((a.score % 100) \div 10) \o ToString(a.score % 10) \o "%) [" \o a.type \o "]"

(* the entries of the first k annotations, separated by ', ' *)
RECURSIVE entriesUpTo(_, _)
entriesUpTo(anns, k) ==
  IF k = 0 THEN ""
  ELSE IF k = 1 THEN entryOf(anns[1])
  ELSE entriesUpTo(anns, k - 1) \o ", " \o entryOf(anns[k])

(* C27: the description of a result has one entry for each annotation of the
   sorted sequence, the selected one and the others, in the order of that
   sequence, each with the text, the score and the kind of its annotation;
   with zero annotations it is the placeholder *)
C27_DescriptionListsAll ==
  Returned =>
    LET anns == sel[1].allAnnotations
    IN  IF Len(anns) = 0
        THEN outcome[1].description = NO_DESCRIPTION
        ELSE outcome[1].description = entriesUpTo(anns, Len(anns))

(* 'car' has the higher score, 'Pizza' is selected, both are described *)
C27_Witness ==
  /\ Returned
  /\ outcome[1].name = "Pizza"
  /\ outcome[1].description = "car (95.00%) [label], Pizza (80.00%) [object]"

----------------------------------------------------------------------------
(* Properties of fetchNutritionalData *)

NutritionFields == {"calories", "protein", "carbs", "fat", "fiber", "sugar", "sodium"}

Extracted ==
  /\ fpc = "done"
  /\ Len(fetchResponse) = 1
  /\ fetchOutcome[1].ok

(* the field each entry of a nutrient list maps to *)
fieldsOf(list) == [i \in 1..Len(list) |-> nutrientField(list[i].nutrientName)]

lastOf(S) == CHOOSE i \in S : \A j \in S : j <= i

(* C10: a field that several entries of the nutrient list map to holds the
   value of the last of them in list order, not a sum or another aggregate *)
C10_LastMatchWins ==
  Extracted =>
    LET list == fetchResponse[1].foods[1].foodNutrients
        data == fetchOutcome[1].data
        fields == fieldsOf(list)
    IN  \A field \in NutritionFields :
          LET entries == {i \in 1..Len(list) : fields[i] = field}
          IN  entries # {} =>
                /\ field \in DOMAIN data
                /\ data[field] = list[lastOf(entries)].value

(* two sodium entries, 100 then 120, give sodium = 120 *)
C10_Witness ==
  /\ Extracted
  /\ LET list == fetchResponse[1].foods[1].foodNutrients
     IN  /\ Len(list) = 2
         /\ list[1] = [nutrientName |-> "Sodium, Na", value |-> 100]
         /\ list[2] = [nutrientName |-> "Sodium, Na", value |-> 120]
  /\ fetchOutcome[1].data.sodium = 120

RequiredFields == {"calories", "protein", "carbs", "fat"}
OptionalFields == {"fiber", "sugar", "sodium"}

(* C11: in the NutritionalData that fetchNutritionalData returns, a required
   field that no nutrient of the list matched is 0, and an optional field
   that no nutrient matched is undefined (not a property of the object) *)
C11_UnmatchedDefaults ==
  Extracted =>
    LET list == fetchResponse[1].foods[1].foodNutrients
        data == fetchOutcome[1].data
        fields == fieldsOf(list)
        matched == {fields[i] : i \in 1..Len(list)}
    IN  /\ \A field \in RequiredFields \ matched :
             field \in DOMAIN data /\ data[field] = 0
        /\ \A field \in OptionalFields \ matched : field \notin DOMAIN data

(* a list with one sugar entry and one entry that matches nothing: sugar is
   set, the required fields are 0, fiber and sodium are undefined *)
C11_Witness ==
  /\ Extracted
  /\ LET list == fetchResponse[1].foods[1].foodNutrients
     IN  /\ Len(list) = 2
         /\ list[1] = [nutrientName |-> "Sugars, total", value |-> 120]
         /\ list[2] = [nutrientName |-> "Water", value |-> 100]
  /\ fetchOutcome[1].data.sugar = 120
  /\ fetchOutcome[1].data.calories = 0
  /\ DOMAIN fetchOutcome[1].data = RequiredFields \cup {"sugar"}

(* the search answered with an empty list of foods *)
ZeroMatches ==
  /\ fpc = "done"
  /\ fetchResponse = <<[kind |-> "ok", foods |-> <<>>]>>

(* C13: a search with zero matches makes fetchNutritionalData fail without
   NutritionalData, with an error that is not the error a missing key or a
   failed request produces *)
C13_NotFoundDistinct ==
  ZeroMatches =>
    /\ ~fetchOutcome[1].ok
    /\ "data" \notin DOMAIN fetchOutcome[1]
    /\ fetchOutcome[1] # fetchRethrow(fetchArg, USDA_KEY_MISSING)
    /\ \A m \in UsdaErrorMessages : fetchOutcome[1] # fetchRethrow(fetchArg, m)

(* the fields in the order in which the chain of lines 249-263 tests them *)
MatchOrder == <<"calories", "protein", "carbs", "fat", "fiber", "sugar", "sodium">>

(* the fields whose condition a nutrient name satisfies *)
matchingFields(nutrientName) ==
  LET name == toLowerCase(nutrientName)
  IN  (IF includes(name, "energy") THEN {"calories"} ELSE {}) \cup
      (IF includes(name, "protein") THEN {"protein"} ELSE {}) \cup
      (IF includes(name, "carbohydrate") THEN {"carbs"} ELSE {}) \cup
      (IF includes(name, "total lipid") \/ includes(name, "fat") THEN {"fat"} ELSE {}) \cup
      (IF includes(name, "fiber") THEN {"fiber"} ELSE {}) \cup
      (IF includes(name, "sugar") THEN {"sugar"} ELSE {}) \cup
      (IF includes(name, "sodium") THEN {"sodium"} ELSE {})

(* the fields an entry updates: the first field of MatchOrder that its name
   matches, none when it matches no field *)
updatedFields(nutrientName) ==
  LET matching == matchingFields(nutrientName)
  IN  {MatchOrder[k] : k \in {k \in 1..Len(MatchOrder) :
                                /\ MatchOrder[k] \in matching
                                /\ \A j \in 1..(k - 1) : MatchOrder[j] \notin matching}}

(* C26: each entry of the nutrient list updates at most one field, the
   first one in the order energy, protein, carbohydrate, total lipid or fat,
   fiber, sugar, sodium that its name matches, and an entry that matches
   none changes nothing: every field of the result holds the value of the
   last entry that updates it, and its initial state when no entry does *)
C26_FirstMatchingFieldOnly ==
  Extracted =>
    LET list == fetchResponse[1].foods[1].foodNutrients
        data == fetchOutcome[1].data
        updated == [i \in 1..Len(list) |-> updatedFields(list[i].nutrientName)]
    IN  /\ \A i \in 1..Len(list) : Cardinality(updated[i]) <= 1
        /\ \A field \in NutritionFields :
             LET entries == {i \in 1..Len(list) : field \in updated[i]}
             IN  IF entries # {}
                 THEN field \in DOMAIN data /\ data[field] = list[lastOf(entries)].value
                 ELSE IF field \in RequiredFields
                 THEN field \in DOMAIN data /\ data[field] = 0
                 ELSE field \notin DOMAIN data

(* a name with 'energy' and 'fat' sets calories only, a name with 'fiber'
   and 'sugar' sets fiber only *)
C26_Witness ==
  /\ Extracted
  /\ LET list == fetchResponse[1].foods[1].foodNutrients
     IN  /\ Len(list) = 2
         /\ list[1] = [nutrientName |-> "Energy from fat", value |-> 120]
         /\ list[2] = [nutrientName |-> "Dietary fiber and sugar", value |-> 100]
  /\ fetchOutcome[1].data =
       [calories |-> 120, protein |-> 0, carbs |-> 0, fat |-> 0, fiber |-> 100]

----------------------------------------------------------------------------
(* Properties of the Result screen *)

(* the state in which the result cannot be saved *)
NotSaveable ==
  \/ user = <<>>
  \/ imageUri = <<>>
  \/ foodData = <<>>
  \/ "isFoodItem" \notin DOMAIN foodData[1]
  \/ ~foodData[1].isFoodItem
  \/ "nutritionalData" \notin DOMAIN foodData[1]

SaveCalled == presses' = presses + 1

(* C7: a call of handleSaveToHistory in a state where the result is not
   saveable issues no insert, writes nothing, leaves isSaved as it was,
   does not navigate, and shows one alert *)
C7_NotSaveableIsNoOp ==
  [][(SaveCalled /\ NotSaveable) =>
       /\ inserts' = inserts
       /\ meals' = meals
       /\ isSaved' = isSaved
       /\ navigations' = navigations
       /\ alerts' = alerts + 1
       /\ lastAlert' \in {<<ALERT_INCOMPLETE>>, <<ALERT_NOT_FOOD>>}]_vars

(* the handler has refused a food item whose lookup failed *)
C7_Witness ==
  /\ presses > 0
  /\ lastAlert = <<ALERT_NOT_FOOD>>
  /\ user # <<>>
  /\ foodData # <<>>
  /\ "isFoodItem" \in DOMAIN foodData[1]
  /\ foodData[1].isFoodItem
  /\ "nutritionalData" \notin DOMAIN foodData[1]
  /\ inserts = <<>>
  /\ meals = <<>>

(* C8: for one analysed image, whatever the Save presses, at most one
   MealRecord is written to the store *)
C8_AtMostOneRecord ==
  started <= 1 => Len(meals) <= 1

NutritionKeys == {"calories", "protein", "carbs", "fat", "fiber", "sugar", "sodium"}

(* the key of analysis_data.total that a field of nutritionalData is saved under *)
totalKey(field) == IF field = "fat" THEN "fats" ELSE field

InsertIssued == SaveCalled /\ Len(inserts') = Len(inserts) + 1

(* C9: the total of the row handed to the store equals the nutritionalData
   of the result field for field: a field is in the total exactly when it is
   in the input, with the same value *)
C9_RoundTripExact ==
  [][InsertIssued =>
       LET nd == foodData[1].nutritionalData
           total == inserts'[Len(inserts')].analysis_data.total
       IN  \A field \in NutritionKeys :
             /\ (totalKey(field) \in DOMAIN total) <=> (field \in DOMAIN nd)
             /\ field \in DOMAIN nd => total[totalKey(field)] = nd[field]]_vars

(* C9 as amended: every field present on input is carried into the total
   unchanged (fat under the key fats), and every field absent on input is
   written as 0 *)
C9_RoundTripPresent ==
  [][InsertIssued =>
       LET nd == foodData[1].nutritionalData
           total == inserts'[Len(inserts')].analysis_data.total
       IN  /\ DOMAIN total = {totalKey(field) : field \in NutritionKeys}
           /\ \A field \in NutritionKeys :
                total[totalKey(field)] = IF field \in DOMAIN nd THEN nd[field] ELSE 0]_vars

(* a row was handed to the store for a result with carbs 120 and fat 100 *)
C9_Witness ==
  \E i \in 1..Len(inserts) :
    /\ inserts[i].analysis_data.total.carbs = 120
    /\ inserts[i].analysis_data.total.fats = 100
    /\ foodData # <<>>
    /\ "nutritionalData" \in DOMAIN foodData[1]
    /\ foodData[1].nutritionalData.fat = 100

----------------------------------------------------------------------------
(* Properties of the History screen *)

MealsSet == mealsLoaded' = mealsLoaded + 1

(* the rows of the table that belong to the user, as the store holds them *)
recordsOf(table, uid) ==
  {r \in {storedRecords(table)[i] : i \in 1..Len(table)} : r.user_id = uid}

(* C17: when a fetchMeals of a signed-in user succeeds, the meals list of
   the History screen holds each stored record of that user once and no
   other record, newest first; and the list never holds a record of
   another user, also after the session ended and another user signed in *)
C17_MealsOfUserNewestFirst ==
  [][/\ (MealsSet /\ user # <<>>) =>
          /\ {historyMeals'[i] : i \in 1..Len(historyMeals')} = recordsOf(meals, user[1].id)
          /\ Len(historyMeals') = Cardinality(recordsOf(meals, user[1].id))
          /\ \A i, j \in 1..Len(historyMeals') :
                i < j => historyMeals'[i].created_at > historyMeals'[j].created_at
     /\ \A i \in 1..Len(historyMeals') :
          user' # <<>> /\ historyMeals'[i].user_id = user'[1].id]_vars

(* the list holds the first and the third record of the table, the third
   first, and the second record of the table belongs to the other user *)
C17_Witness ==
  /\ mealsLoaded > 0
  /\ mounted
  /\ Len(meals) = 3
  /\ meals[2].user_id = "user-2"
  /\ Len(historyMeals) = 2
  /\ historyMeals[1].created_at = 3
  /\ historyMeals[2].created_at = 1
  /\ user = <<[id |-> "user-1"]>>

----------------------------------------------------------------------------
(* Properties of the Result screen under overlapping analyses *)

(* C21: no image URI ever has two analyzeFoodImage calls in flight, whatever
   the sequence of route changes *)
C21_OneAnalysisPerUri ==
  \A uri \in ImageUris : analyses[uri] <= 1

(* the row carries the name that the analysis of its own image produces *)
pairsImageWithItsAnalysis(row) ==
  row.analysis_data.items[1].name = labelOf(row.image_url)

(* C22: every row the screen hands to the store, and every row written,
   pairs image_url with the result of analysing that image, also when the
   image URI changed while an earlier analysis was in flight *)
C22_RowsPairImageWithItsAnalysis ==
  /\ \A i \in 1..Len(inserts) : pairsImageWithItsAnalysis(inserts[i])
  /\ \A i \in 1..Len(detached) : pairsImageWithItsAnalysis(detached[i])
  /\ \A i \in 1..Len(meals) : pairsImageWithItsAnalysis(meals[i])

(* C23: isSaved is true only if a row for the current image URI has been
   written to the store; a save in flight when the image URI changes does
   not mark the new image as saved *)
C23_SavedOnlyIfCurrentImageStored ==
  isSaved =>
    /\ imageUri # <<>>
    /\ \E i \in 1..Len(meals) : meals[i].image_url = imageUri[1]

(* a pending insert of the screen settles without a row being written: the
   store rejected it or the call threw, and the handler shows its alert *)
InsertFailed ==
  /\ Len(inserts') = Len(inserts) - 1
  /\ meals' = meals
  /\ alerts' = alerts + 1

(* C28: when an insert is rejected or throws, isSaved is false afterwards
   and the screen does not navigate to History; isSaved becomes true only in
   a step in which a row is written, and that step navigates to History *)
C28_FailedInsertLeavesUnsaved ==
  [][/\ InsertFailed => ~isSaved' /\ navigations' = navigations
     /\ (isSaved' /\ ~isSaved) =>
          /\ Len(meals') = Len(meals) + 1
          /\ navigations' = navigations + 1]_vars

(* an analyzeFoodImage call of the rendered screen settles *)
AnalysisSettled ==
  /\ tabs'
  /\ \E uri \in ImageUris : analyses'[uri] = analyses[uri] - 1

(* the screen shows the fallback of a failed analysis *)
ShowsFallback ==
  /\ foodData = <<FALLBACK>>
  /\ "nutritionalData" \notin DOMAIN foodData[1]

(* the screen shows the result of an analysis that succeeded *)
ShowsResult == foodData # <<>> /\ "isFoodItem" \in DOMAIN foodData[1]

(* C29: an analysis that settles on the rendered screen either succeeds,
   which takes the vision key, and shows its result, or fails and then the
   screen shows the fallback without nutritionalData and the error message,
   whatever was shown before; from then on, until an analysis succeeds, the
   screen shows the fallback or, once it has been unmounted, nothing, and a
   call of handleSaveToHistory issues no insert and writes nothing; a
   result is only shown by an analysis that succeeds *)
C29_FailureShowsFallback ==
  [][/\ AnalysisSettled =>
          \/ /\ ShowsFallback'
             /\ error' = <<ANALYSIS_ERROR>>
          \/ /\ googleKey
             /\ ShowsResult'
             /\ error' = error
     /\ (~ShowsResult /\ SaveCalled) =>
          /\ inserts' = inserts
          /\ meals' = meals
          /\ isSaved' = isSaved
     /\ (ShowsFallback /\ foodData' # foodData) =>
          \/ AnalysisSettled /\ ShowsResult'
          \/ ~tabs' /\ foodData' = <<>>
     /\ (ShowsResult' /\ foodData' # foodData) =>
          AnalysisSettled /\ googleKey]_vars

(* the first image was analysed and saved, the analysis of the second
   failed, and the handler then refused to save the fallback *)
C29_Witness ==
  /\ ShowsFallback
  /\ error = <<ANALYSIS_ERROR>>
  /\ imageUri = <<"file:///b.jpg">>
  /\ Len(meals) = 1
  /\ meals[1].image_url = "file:///a.jpg"
  /\ inserts = <<>>
  /\ presses = 2
  /\ lastAlert = <<ALERT_NOT_FOOD>>

(* the analysis of the current image URI is still in flight *)
CurrentAnalysisInFlight ==
  \E uri \in ImageUris : imageUri = <<uri>> /\ analyses[uri] > 0

(* every started analysis settles, and loading is false in the state it
   leaves *)
EventuallyNotLoading ==
  \A uri \in ImageUris : \A n \in 1..MaxRoutes :
    (analyses[uri] = n) ~> (analyses[uri] < n /\ ~loading)

(* C30: when every network call eventually returns or fails, each analysis
   the screen started eventually leaves loading false, and loading is true
   whenever the analysis of the current image URI is still in flight *)
C30_LoadingTracksAnalysis ==
  /\ EventuallyNotLoading
  /\ [](CurrentAnalysisInFlight => loading)

====
